---------------------------- MODULE Spec2Model ----------------------------
(***************************************************************************)
(* NewsCast: the generator run (generator/main.py) and the speech          *)
(* synthesis it drives (generator/audio_generator.py), as a state machine. *)
(* The audio tools, the video mux and the upload (audio_mixer.py,          *)
(* video_generator.py, youtube_uploader.py) are kept as the requests the   *)
(* run makes of them, in order, with what they were asked for.             *)
(*                                                                         *)
(* A dialogue unit is the dict {speaker, text, emotion} of the script.     *)
(* Speaker and emotion only select the voice of a request, so a unit is    *)
(* kept as its text plus `at`, the place of the unit in the script         *)
(* (<<section, block, position>>), which the properties use to name it.    *)
(* Text is a sequence of characters.  Audio is kept as a timeline: a       *)
(* sequence of speech and silence pieces with their length in ms; b"" is   *)
(* the empty timeline.  Sleeps are counted in seconds.                     *)
(***************************************************************************)
EXTENDS Integers, Sequences, FiniteSets, TLC

VARIABLES
    store,          \* the news collection: document id -> status
    store0,         \* the collection as the run found it
    args,           \* the command line flags of the run
    assets,         \* which of the optional assets exist under assets/
    gemini_key,     \* whether GEMINI_API_KEY is set
    news_items,     \* main: the ids of the fetched items
    files,          \* the artifacts under output/
    main_audio_for_mix, \* generate_and_upload_video: the splice's input
    result,         \* generate_and_upload_video: the result dict
    calls,          \* the external calls made so far, in order
    exitCode,       \* what main returned, -1 while it runs
    pc,             \* where the run is
    script,         \* the script handed to generate_audio
    dialogues,      \* generate_audio: the extracted units
    i,              \* generate_audio: index of the current unit (0-based)
    retry,          \* generate_audio: the retry counter of the current unit
    audio_segments, \* generate_audio: the recorded payloads
    unit,           \* bookkeeping of the current unit's attempts
    lastReq,        \* the last backend request issued
    requested,      \* the units a first request was issued for, in order
    audio_data,     \* what generate_audio returned
    raised          \* the exception propagating and the stage it left

synthVars == <<dialogues, i, retry, audio_segments, unit, lastReq, requested>>

mainVars == <<store, store0, args, assets, gemini_key, news_items, files,
              main_audio_for_mix, result, calls, exitCode>>

vars == <<store, store0, args, assets, gemini_key, news_items, files, main_audio_for_mix,
          result, calls, exitCode, pc, script, dialogues, i, retry,
          audio_segments, unit, lastReq, requested, audio_data, raised>>

-----------------------------------------------------------------------------
(* Bounds of the model *)

\* units a script of the synthesis specification may send to the backend
SynthMaxUnits == 2

(* Program constants *)

max_retries == 5
base_wait == 3
request_interval == 7
SilenceMs == 400
MinPayloadBytes == 10

-----------------------------------------------------------------------------
(* Scripts *)

SectionNames == <<"introduction", "vocabulary_hook", "deep_dive", "discussion">>

SectionSet == {SectionNames[j] : j \in 1..4}

Hi == <<"H", "i">>

\* the texts a unit of the script may carry
Texts == {<<>>, <<" ">>, Hi}

NoBlank == [at |-> <<"nowhere", 0, 0>>, text |-> Hi]

\* n units of section sec of block b; the unit at blank.at carries blank.text
Units(sec, b, n, blank) ==
    [k \in 1..n |-> [at |-> <<sec, b, k>>,
                     text |-> IF blank.at = <<sec, b, k>> THEN blank.text ELSE Hi]]

\* a script of the structure the prompt asks for: intro, blocks, outro
MkScript(ni, nb, lens, no, blank) ==
    [intro |-> Units("intro", 0, ni, blank),
     news  |-> [b \in 1..nb |->
                  [sections |-> [s \in SectionSet |-> Units(s, b, lens[s], blank)]]],
     outro |-> Units("outro", 0, no, blank)]

\* the places of the units of such a script
Places(ni, nb, lens, no) ==
    {<<"intro", 0, k>> : k \in 1..ni}
    \cup {<<"outro", 0, k>> : k \in 1..no}
    \cup UNION {{<<s, b, k>> : k \in 1..lens[s]} : <<s, b>> \in SectionSet \X (1..nb)}

Blanks(ni, nb, lens, no) ==
    {NoBlank} \cup {[at |-> p, text |-> t] :
                    <<p, t>> \in Places(ni, nb, lens, no) \X {<<>>, <<" ">>}}

\* dict.get(key, default)
Get(d, key, default) == IF key \in DOMAIN d THEN d[key] ELSE default

\* str.strip(): leading and trailing whitespace removed
RECURSIVE LStrip(_)
LStrip(t) == IF t # <<>> /\ Head(t) = " " THEN LStrip(Tail(t)) ELSE t

RECURSIVE RStrip(_)
RStrip(t) ==
    IF t # <<>> /\ t[Len(t)] = " " THEN RStrip(SubSeq(t, 1, Len(t) - 1)) ELSE t

Strip(t) == RStrip(LStrip(t))

\* a variant that takes only the empty text for blank
IsBlankEmptyOnly(t) == t = <<>>

\* `not text.strip()`
IsBlank(t) == Strip(t) = <<>>

EmptyDict == [x \in {} |-> <<>>]

\* the units of one block: the four sections in the fixed order
SectionDialogues(news_item) ==
    LET sections == Get(news_item, "sections", EmptyDict)
        D[j \in 0..4] ==
            IF j = 0 THEN <<>> ELSE D[j - 1] \o Get(sections, SectionNames[j], <<>>)
    IN  D[4]

RECURSIVE NewsDialogues(_, _)
NewsDialogues(news, b) ==
    IF b > Len(news) THEN <<>>
    ELSE SectionDialogues(news[b]) \o NewsDialogues(news, b + 1)

\* a variant that also sends the intro section to the backend
ExtractWithIntro(s) ==
    Get(s, "intro", <<>>) \o NewsDialogues(Get(s, "news", <<>>), 1)
        \o Get(s, "outro", <<>>)

\* a variant that leaves the outro out
ExtractWithoutOutro(s) == NewsDialogues(Get(s, "news", <<>>), 1)

\* GeminiAudioGenerator._extract_all_dialogues
ExtractAllDialogues(s) ==
    NewsDialogues(Get(s, "news", <<>>), 1) \o Get(s, "outro", <<>>)

-----------------------------------------------------------------------------
(* The speech backend's answers *)

L16 == "audio/L16;codec=pcm;rate=24000"

\* data: size in bytes, whether a container decoder accepts it, and the
\* length it decodes to
GoodPcm  == [data |-> [size |-> 4800, decodes |-> TRUE, ms |-> 100], mime_type |-> L16]
ShortWav == [data |-> [size |-> 9, decodes |-> FALSE, ms |-> 0], mime_type |-> "audio/wav"]
BadWav   == [data |-> [size |-> 4800, decodes |-> FALSE, ms |-> 0], mime_type |-> "audio/wav"]
GoodWav  == [data |-> [size |-> 9600, decodes |-> TRUE, ms |-> 200], mime_type |-> "audio/wav"]
NoData   == [data |-> [size |-> 0, decodes |-> FALSE, ms |-> 0], mime_type |-> "audio/wav"]
\* bare 16-bit PCM samples for which the backend declares no mime type
\* (inline_data.mime_type is None); no container decoder accepts them
BarePcm  == [data |-> [size |-> 4800, decodes |-> FALSE, ms |-> 0], mime_type |-> "None"]

\* the parts of a successful response (no candidate: no part)
Responses == {<<>>, <<NoData>>, <<GoodPcm>>, <<ShortWav>>, <<BadWav>>, <<BarePcm>>,
              <<GoodPcm, GoodWav>>}

\* lines 387-398: every part that carries data is recorded with its mime type
RECURSIVE RecordParts(_, _)
RecordParts(parts, u) ==
    IF parts = <<>> THEN <<>>
    ELSE (IF Head(parts).data.size > 0
          THEN <<[data |-> Head(parts).data, mime_type |-> Head(parts).mime_type,
                  of |-> u]>>
          ELSE <<>>) \o RecordParts(Tail(parts), u)

-----------------------------------------------------------------------------
(* GeminiAudioGenerator.generate_audio *)

NoExc == [exc |-> "none", at |-> "none"]

NoUnit == [idx |-> -1, attempts |-> 0, n429 |-> 0, nSrv |-> 0, backoff |-> 0,
           outcome |-> "none"]

\* the last request issued: its unit and attempt, the spacing slept before
\* it, whether it was the first of the run, how the unit before it ended,
\* and the number of requests not yet answered
NoReq == [idx |-> -1, retry |-> 0, spaced |-> 0, first |-> FALSE,
          prev |-> "none", open |-> 0]

\* the bookkeeping of unit i when attempt `retry` is made
UnitNow == IF retry = 0
           THEN [NoUnit EXCEPT !.idx = i, !.outcome = "pending"]
           ELSE unit

\* line 368-369: the spacing slept before this attempt
Spacing == IF i > 0 /\ retry = 0 THEN request_interval ELSE 0

\* a variant with a linear instead of an exponential backoff
WaitTimeLinear(r) == base_wait * (r + 1)

\* line 408, 422
WaitTime(r) == base_wait * (2 ^ r)

\* the request of this attempt is issued
Issue ==
    /\ lastReq' = [idx |-> i, retry |-> retry, spaced |-> Spacing,
                   first |-> requested = <<>> /\ retry = 0,
                   prev |-> IF retry = 0 THEN unit.outcome ELSE "retry",
                   open |-> lastReq.open + 1]
    /\ requested' = IF retry = 0 THEN Append(requested, dialogues[i + 1].at)
                    ELSE requested

\* generate_content returns or raises: the request of this attempt is over
Answered ==
    /\ lastReq.open = 1
    /\ lastReq.idx = i
    /\ lastReq.retry = retry
    /\ lastReq' = [lastReq EXCEPT !.open = 0]
    /\ UNCHANGED requested

InLoop == pc = "g_loop" /\ i < Len(dialogues)

\* lines 340-345
GeminiEnter ==
    /\ pc = "g_enter"
    /\ dialogues' = ExtractAllDialogues(script)
    /\ i' = 0
    /\ retry' = 0
    /\ audio_segments' = <<>>
    /\ IF dialogues' = <<>>
       THEN pc' = "a_ret" /\ audio_data' = <<>>
       ELSE pc' = "g_loop" /\ UNCHANGED audio_data
    /\ UNCHANGED <<mainVars, script, unit, lastReq, requested, raised>>

\* lines 359-360
GeminiSkip ==
    /\ InLoop
    /\ IsBlank(dialogues[i + 1].text)
    /\ i' = i + 1
    /\ UNCHANGED <<mainVars, pc, script, dialogues, retry, audio_segments, unit,
                   lastReq, requested, audio_data, raised>>

\* a variant that sends without waiting for the answer of the last request
GeminiSendNoWait ==
    /\ InLoop
    /\ ~IsBlank(dialogues[i + 1].text)
    /\ lastReq.open <= 1
    /\ Issue
    /\ UNCHANGED <<mainVars, pc, script, dialogues, i, retry, audio_segments,
                   unit, audio_data, raised>>

\* lines 365-385: the spacing is slept and generate_content is called; the
\* call blocks until the backend has answered
GeminiSend ==
    /\ InLoop
    /\ ~IsBlank(dialogues[i + 1].text)
    /\ lastReq.open = 0
    /\ Issue
    /\ UNCHANGED <<mainVars, pc, script, dialogues, i, retry, audio_segments,
                   unit, audio_data, raised>>

\* lines 366-400: the request succeeds with one of the responses R
GeminiAttemptOkWith(R) ==
    /\ InLoop
    /\ ~IsBlank(dialogues[i + 1].text)
    /\ Answered
    /\ \E parts \in R :
          audio_segments' = audio_segments \o RecordParts(parts, dialogues[i + 1].at)
    /\ unit' = [UnitNow EXCEPT !.attempts = @ + 1, !.outcome = "ok"]
    /\ i' = i + 1
    /\ retry' = 0
    /\ UNCHANGED <<mainVars, pc, script, dialogues, audio_data, raised>>

GeminiAttemptOk == GeminiAttemptOkWith(Responses)

\* the backend answers every request with one good payload
GeminiAttemptGood == GeminiAttemptOkWith({<<GoodPcm>>})

\* a variant that gives up one attempt early
BackoffRaisesEarly(kind, exc) ==
    /\ unit' = [UnitNow EXCEPT !.attempts = @ + 1,
                               ![kind] = @ + 1,
                               !.backoff = @ + WaitTime(retry),
                               !.outcome = IF retry >= max_retries - 2
                                           THEN "raised" ELSE "pending"]
    /\ IF retry >= max_retries - 2
       THEN /\ pc' = "raised"
            /\ raised' = [exc |-> exc, at |-> "synth"]
            /\ UNCHANGED retry
       ELSE /\ retry' = retry + 1
            /\ UNCHANGED <<pc, raised>>

\* a retryable failure at attempt `retry`: sleep, then retry or re-raise
Backoff(kind, exc) ==
    /\ unit' = [UnitNow EXCEPT !.attempts = @ + 1,
                               ![kind] = @ + 1,
                               !.backoff = @ + WaitTime(retry),
                               !.outcome = IF retry = max_retries - 1
                                           THEN "raised" ELSE "pending"]
    /\ IF retry = max_retries - 1
       THEN /\ pc' = "raised"
            /\ raised' = [exc |-> exc, at |-> "synth"]
            /\ UNCHANGED retry
       ELSE /\ retry' = retry + 1
            /\ UNCHANGED <<pc, raised>>

\* lines 402-414: ClientError with code 429
GeminiAttempt429 ==
    /\ InLoop
    /\ ~IsBlank(dialogues[i + 1].text)
    /\ Answered
    /\ Backoff("n429", "ClientError429")
    /\ UNCHANGED <<mainVars, script, dialogues, i, audio_segments, audio_data>>

\* a variant that sleeps the backoff before it re-raises
ClientErrorBacksOff ==
    /\ InLoop
    /\ ~IsBlank(dialogues[i + 1].text)
    /\ Answered
    /\ unit' = [UnitNow EXCEPT !.attempts = @ + 1,
                               !.backoff = @ + WaitTime(retry),
                               !.outcome = "raised"]
    /\ pc' = "raised"
    /\ raised' = [exc |-> "ClientError", at |-> "synth"]
    /\ UNCHANGED <<mainVars, script, dialogues, i, retry, audio_segments, audio_data>>

\* lines 415-416: any other ClientError
GeminiAttemptClientError ==
    /\ InLoop
    /\ ~IsBlank(dialogues[i + 1].text)
    /\ Answered
    /\ unit' = [UnitNow EXCEPT !.attempts = @ + 1, !.outcome = "raised"]
    /\ pc' = "raised"
    /\ raised' = [exc |-> "ClientError", at |-> "synth"]
    /\ UNCHANGED <<mainVars, script, dialogues, i, retry, audio_segments, audio_data>>

\* a variant in which a server error does not use up an attempt
ServerErrorNotCounted ==
    /\ InLoop
    /\ ~IsBlank(dialogues[i + 1].text)
    /\ Answered
    /\ unit' = [UnitNow EXCEPT !.attempts = @ + 1, !.nSrv = @ + 1,
                               !.backoff = @ + WaitTime(retry)]
    /\ UNCHANGED <<mainVars, pc, script, dialogues, i, retry, audio_segments,
                   audio_data, raised>>

\* lines 417-428: ServerError
GeminiAttemptServerError ==
    /\ InLoop
    /\ ~IsBlank(dialogues[i + 1].text)
    /\ Answered
    /\ Backoff("nSrv", "ServerError")
    /\ UNCHANGED <<mainVars, script, dialogues, i, audio_segments, audio_data>>

-----------------------------------------------------------------------------
(* The assembly of the recorded payloads (generate_audio, lines 430-496) *)

\* get_format_from_mime (lines 439-450)
get_format_from_mime(mime_type) ==
    CASE mime_type \in {"audio/wav", "audio/x-wav"} -> "wav"
      [] mime_type \in {"audio/mpeg", "audio/mp3"}  -> "mp3"
      [] mime_type = "audio/ogg"                    -> "ogg"
      [] mime_type = "audio/flac"                   -> "flac"
      [] mime_type \in {"audio/L16", "audio/pcm"}   -> "raw"
      [] OTHER                                      -> "wav"

\* mime_type.startswith("audio/L16")
StartsWithL16(mime_type) == mime_type \in {"audio/L16", L16}

\* bytes of one millisecond of 16-bit mono PCM at 24000 Hz (lines 470-472)
PcmBytesPerMs == 48

\* lines 468-473: the bytes taken as 16-bit mono PCM at 24000 Hz; AudioSegment
\* raises for a length that is not a multiple of the sample width
DecodeRaw(p) ==
    IF p.data.size % 2 = 0
    THEN [ok |-> TRUE, ms |-> p.data.size \div PcmBytesPerMs]
    ELSE [ok |-> FALSE, ms |-> 0]

\* lines 462-477: the decoded segment, or the decoder raising; the test of
\* line 466 calls startswith on the mime type, which raises for None
Decode(p) ==
    IF get_format_from_mime(p.mime_type) = "raw" THEN DecodeRaw(p)
    ELSE IF p.mime_type = "None" THEN [ok |-> FALSE, ms |-> 0]
    ELSE IF StartsWithL16(p.mime_type) THEN DecodeRaw(p)
    ELSE [ok |-> p.data.decodes, ms |-> p.data.ms]

Speech(p, ms) == [kind |-> "speech", of |-> p.of, ms |-> ms]

Silence == [kind |-> "silence", of |-> <<"silence", 0, 0>>, ms |-> SilenceMs]

NoneYet == [set |-> FALSE, tl |-> <<>>]

\* a variant that puts the silence after every segment
JoinSilenceAfter(combined, seg) ==
    [set |-> TRUE, tl |-> combined.tl \o <<seg>> \o <<Silence>>]

\* lines 479-483: the first segment as it is, a later one after a silence
Join(combined, seg) ==
    IF ~combined.set THEN [set |-> TRUE, tl |-> <<seg>>]
    ELSE [set |-> TRUE, tl |-> combined.tl \o <<Silence>> \o <<seg>>]

\* a variant whose loop ends at the first payload that cannot be used
RECURSIVE CombineStopsAtBad(_, _, _)
CombineStopsAtBad(segs, k, combined) ==
    IF k > Len(segs) THEN combined
    ELSE IF segs[k].data.size < MinPayloadBytes \/ ~Decode(segs[k]).ok
         THEN combined
         ELSE CombineStopsAtBad(segs, k + 1,
                                Join(combined, Speech(segs[k], Decode(segs[k]).ms)))

\* lines 452-486: the loop over the recorded payloads, from payload k on
RECURSIVE Combine(_, _, _)
Combine(segs, k, combined) ==
    IF k > Len(segs) THEN combined
    ELSE IF segs[k].data.size < MinPayloadBytes
         THEN Combine(segs, k + 1, combined)
         ELSE IF ~Decode(segs[k]).ok
              THEN Combine(segs, k + 1, combined)
              ELSE Combine(segs, k + 1,
                           Join(combined, Speech(segs[k], Decode(segs[k]).ms)))

\* lines 430-496: what generate_audio returns for the recorded payloads
AssembleAudio(segs, pydub) ==
    IF segs = <<>> THEN <<>>
    ELSE IF ~pydub
         THEN <<[kind |-> "undecoded", of |-> segs[1].of, ms |-> segs[1].data.ms]>>
         ELSE Combine(segs, 1, NoneYet).tl

\* the loop is over: assemble and return
GeminiAssemble ==
    /\ pc = "g_loop"
    /\ i = Len(dialogues)
    /\ \E pydub \in BOOLEAN : audio_data' = AssembleAudio(audio_segments, pydub)
    /\ pc' = "a_ret"
    /\ UNCHANGED <<mainVars, script, synthVars, raised>>

-----------------------------------------------------------------------------
(* AudioGenerator (Edge TTS): generate_audio and _generate_all_audio *)

\* the lengths an Edge segment may have
EdgeDurations == {100, 200}

\* AudioGenerator._extract_all_dialogues
EdgeExtractAllDialogues(s) ==
    NewsDialogues(Get(s, "news", <<>>), 1) \o Get(s, "outro", <<>>)

InEdgeLoop == pc = "e_loop" /\ i < Len(dialogues)

\* lines 66-74
EdgeEnter ==
    /\ pc = "e_enter"
    /\ dialogues' = EdgeExtractAllDialogues(script)
    /\ i' = 0
    /\ audio_segments' = <<>>
    /\ pc' = "e_loop"
    /\ UNCHANGED <<mainVars, script, retry, unit, lastReq, requested, audio_data,
                   raised>>

\* lines 81-82
EdgeSkip ==
    /\ InEdgeLoop
    /\ IsBlank(dialogues[i + 1].text)
    /\ i' = i + 1
    /\ UNCHANGED <<mainVars, pc, script, dialogues, retry, audio_segments, unit,
                   lastReq, requested, audio_data, raised>>

\* lines 84-103: the segment of the unit, then a silence
EdgeUnitOkWith(D) ==
    /\ InEdgeLoop
    /\ ~IsBlank(dialogues[i + 1].text)
    /\ \E ms \in D :
          audio_segments' = audio_segments \o
              <<[kind |-> "speech", of |-> dialogues[i + 1].at, ms |-> ms], Silence>>
    /\ requested' = Append(requested, dialogues[i + 1].at)
    /\ i' = i + 1
    /\ UNCHANGED <<mainVars, pc, script, dialogues, retry, unit, lastReq,
                   audio_data, raised>>

EdgeUnitOk == EdgeUnitOkWith(EdgeDurations)

\* every unit spoken in the same time
EdgeUnitGood == EdgeUnitOkWith({200})

\* lines 90-98: the service or the decoder raises; nothing catches it
EdgeUnitRaise ==
    /\ InEdgeLoop
    /\ ~IsBlank(dialogues[i + 1].text)
    /\ requested' = Append(requested, dialogues[i + 1].at)
    /\ pc' = "raised"
    /\ raised' = [exc |-> "EdgeError", at |-> "synth"]
    /\ UNCHANGED <<mainVars, script, dialogues, i, retry, audio_segments, unit,
                   lastReq, audio_data>>

\* lines 105-124
EdgeAssemble ==
    /\ pc = "e_loop"
    /\ i = Len(dialogues)
    /\ audio_data' = audio_segments
    /\ pc' = "a_ret"
    /\ UNCHANGED <<mainVars, script, synthVars, raised>>

-----------------------------------------------------------------------------
(* FallbackAudioGenerator (Google Cloud TTS): generate_audio *)

\* FallbackAudioGenerator._extract_all_dialogues
FallbackExtractAllDialogues(s) ==
    NewsDialogues(Get(s, "news", <<>>), 1) \o Get(s, "outro", <<>>)

InFallbackLoop == pc = "f_loop" /\ i < Len(dialogues)

\* lines 192-198
FallbackEnter ==
    /\ pc = "f_enter"
    /\ dialogues' = FallbackExtractAllDialogues(script)
    /\ i' = 0
    /\ audio_segments' = <<>>
    /\ pc' = "f_loop"
    /\ UNCHANGED <<mainVars, script, retry, unit, lastReq, requested, audio_data,
                   raised>>

\* lines 204-205
FallbackSkip ==
    /\ InFallbackLoop
    /\ IsBlank(dialogues[i + 1].text)
    /\ i' = i + 1
    /\ UNCHANGED <<mainVars, pc, script, dialogues, retry, audio_segments, unit,
                   lastReq, requested, audio_data, raised>>

\* lines 207-239: synthesize_speech, the segment of the unit, then a silence
FallbackUnitOkWith(D) ==
    /\ InFallbackLoop
    /\ ~IsBlank(dialogues[i + 1].text)
    /\ \E ms \in D :
          audio_segments' = audio_segments \o
              <<[kind |-> "speech", of |-> dialogues[i + 1].at, ms |-> ms], Silence>>
    /\ requested' = Append(requested, dialogues[i + 1].at)
    /\ i' = i + 1
    /\ UNCHANGED <<mainVars, pc, script, dialogues, retry, unit, lastReq,
                   audio_data, raised>>

\* every unit spoken in the same time
FallbackUnitGood == FallbackUnitOkWith({200})

\* lines 241-264
FallbackAssemble ==
    /\ pc = "f_loop"
    /\ i = Len(dialogues)
    /\ audio_data' = audio_segments
    /\ pc' = "a_ret"
    /\ UNCHANGED <<mainVars, script, synthVars, raised>>

-----------------------------------------------------------------------------
(* main() and generate_and_upload_video (generator/main.py) *)

Status == {"unread", "selected", "archived"}

\* get_selected_news: at most `limit` documents
QueryLimit == 3

\* main: the number of items a run needs
NeededItems == 3

FileNames == {"temp_audio", "main_audio", "main_with_bgm", "final_audio",
              "normalized_audio", "video", "thumbnail"}

\* an artifact: the stages that made it, and whether it holds no audio
Absent == [from |-> <<>>, empty |-> TRUE]

Exists(f) == files[f].from # <<>>

\* the output of a stage run on artifact `in`
Derived(in, stage) == [from |-> Append(files[in].from, stage), empty |-> files[in].empty]

Call(stage, in) == [stage |-> stage, input |-> in]

NoResult == [news_ids |-> <<>>, dry_run |-> FALSE, video_id |-> "none",
             video_url |-> "none"]

\* the first n ids of `ids` in increasing order
RECURSIVE FirstIds(_, _)
FirstIds(ids, n) ==
    IF n = 0 \/ ids = {} THEN <<>>
    ELSE LET m == CHOOSE x \in ids : \A y \in ids : x <= y
         IN  <<m>> \o FirstIds(ids \ {m}, n - 1)

\* get_selected_news (lines 57-79)
get_selected_news(db, limit) ==
    FirstIds({d \in DOMAIN db : db[d] = "selected"}, limit)

\* line 310: the call of update_news_status, with its arguments
UpdateCall(news_ids, status) ==
    [stage |-> "update", input |-> "none", ids |-> news_ids, status |-> status]

\* a variant that writes the first document only
UpdateFirstOnly(db, news_ids, status) ==
    [d \in DOMAIN db |->
        IF news_ids # <<>> /\ news_ids[1] = d THEN status ELSE db[d]]

\* update_news_status (lines 82-98): one batch, committed at once
update_news_status(db, news_ids, status) ==
    [d \in DOMAIN db |->
        IF \E k \in 1..Len(news_ids) : news_ids[k] = d THEN status ELSE db[d]]

\* an exception raised in stage `at` leaves the try block of main
Raise(exc, at) ==
    /\ pc' = "raised"
    /\ raised' = [exc |-> exc, at |-> at]

\* lines 276-280, 285: Firebase cannot be initialised or the query fails
FetchRaise ==
    /\ pc = "start"
    /\ Raise("FirebaseError", "fetch")
    /\ calls' = Append(calls, Call("query", "none"))
    /\ UNCHANGED <<store, store0, args, assets, gemini_key, news_items, files,
                   main_audio_for_mix, result, exitCode, script, synthVars,
                   audio_data>>

\* a variant that treats too few items as an error
FetchFewFails ==
    /\ pc = "start"
    /\ Len(get_selected_news(store, QueryLimit)) < NeededItems
    /\ news_items' = get_selected_news(store, QueryLimit)
    /\ calls' = Append(calls, Call("query", "none"))
    /\ pc' = "exit"
    /\ exitCode' = 1
    /\ UNCHANGED <<store, store0, args, assets, gemini_key, files, main_audio_for_mix,
                   result, script, synthVars, audio_data, raised>>

\* lines 283-294: fewer than three selected items
FetchFew ==
    /\ pc = "start"
    /\ Len(get_selected_news(store, QueryLimit)) < NeededItems
    /\ news_items' = get_selected_news(store, QueryLimit)
    /\ calls' = Append(calls, Call("query", "none"))
    /\ pc' = "exit"
    /\ exitCode' = 0
    /\ UNCHANGED <<store, store0, args, assets, gemini_key, files, main_audio_for_mix,
                   result, script, synthVars, audio_data, raised>>

\* lines 283-299
FetchOk ==
    /\ pc = "start"
    /\ Len(get_selected_news(store, QueryLimit)) >= NeededItems
    /\ news_items' = get_selected_news(store, QueryLimit)
    /\ calls' = Append(calls, Call("query", "none"))
    /\ pc' = "script"
    /\ UNCHANGED <<store, store0, args, assets, gemini_key, files, main_audio_for_mix,
                   result, exitCode, script, synthVars, audio_data, raised>>

\* the scripts the script source returns in a run: the shape of the
\* module's own test script (intro, no block, outro)
MainMaxUnits == 1

ZeroLens == [s \in SectionSet |-> 0]

MainScripts ==
    UNION {{MkScript(1, 0, ZeroLens, no, blank) : blank \in Blanks(0, 0, ZeroLens, no)} :
           no \in 0..MainMaxUnits}

\* lines 128-131, script_generator.py 20-24: no API key
ScriptGenNoKey ==
    /\ pc = "script"
    /\ ~gemini_key
    /\ Raise("ValueError", "script")
    /\ UNCHANGED <<mainVars, script, synthVars, audio_data>>

\* script_generator.py 44-69: the item count is wrong, the call fails or the
\* answer is no JSON
ScriptGenRaise ==
    /\ pc = "script"
    /\ gemini_key
    /\ Raise(IF Len(news_items) # 3 THEN "ValueError" ELSE "ScriptError", "script")
    /\ calls' = IF Len(news_items) # 3 THEN calls
                ELSE Append(calls, Call("script", "none"))
    /\ UNCHANGED <<store, store0, args, assets, gemini_key, news_items, files,
                   main_audio_for_mix, result, exitCode, script, synthVars,
                   audio_data>>

\* lines 128-137
ScriptGenOk ==
    /\ pc = "script"
    /\ gemini_key
    /\ Len(news_items) = 3
    /\ script' \in MainScripts
    /\ calls' = Append(calls, Call("script", "none"))
    /\ pc' = "tts"
    /\ UNCHANGED <<store, store0, args, assets, gemini_key, news_items, files,
                   main_audio_for_mix, result, exitCode, synthVars, audio_data,
                   raised>>

\* lines 139-144 with get_audio_generator: the Gemini engine
TtsGemini ==
    /\ pc = "tts"
    /\ ~args.use_fallback_tts
    /\ calls' = Append(calls, Call("synth", "script"))
    /\ pc' = "g_enter"
    /\ UNCHANGED <<store, store0, args, assets, gemini_key, news_items, files,
                   main_audio_for_mix, result, exitCode, script, synthVars,
                   audio_data, raised>>

\* lines 139-144 with get_audio_generator: the Edge engine
TtsEdge ==
    /\ pc = "tts"
    /\ args.use_fallback_tts
    /\ calls' = Append(calls, Call("synth", "script"))
    /\ pc' = "e_enter"
    /\ UNCHANGED <<store, store0, args, assets, gemini_key, news_items, files,
                   main_audio_for_mix, result, exitCode, script, synthVars,
                   audio_data, raised>>

\* audio_generator.py 45-54: edge-tts or pydub is not installed
TtsEdgeImportError ==
    /\ pc = "tts"
    /\ args.use_fallback_tts
    /\ Raise("ImportError", "synth")
    /\ UNCHANGED <<mainVars, script, synthVars, audio_data>>

\* the locals of generate_audio are gone once it has returned
SynthReturned ==
    /\ dialogues' = <<>>
    /\ i' = 0
    /\ retry' = 0
    /\ audio_segments' = <<>>
    /\ unit' = NoUnit
    /\ lastReq' = NoReq
    /\ requested' = <<>>

TempAudio == [from |-> <<"synth">>, empty |-> audio_data = <<>>]

\* lines 146-154, audio_mixer.py 37-50: the audio is saved, ffmpeg is missing
ConvertNoFfmpeg ==
    /\ pc = "a_ret"
    /\ SynthReturned
    /\ files' = [files EXCEPT !["temp_audio"] = TempAudio]
    /\ Raise("RuntimeError", "convert")
    /\ UNCHANGED <<store, store0, args, assets, gemini_key, news_items,
                   main_audio_for_mix, result, calls, exitCode, script, audio_data>>

\* lines 146-158, audio_mixer.py 143-160: ffmpeg exits non-zero
ConvertFail ==
    /\ pc = "a_ret"
    /\ SynthReturned
    /\ files' = [files EXCEPT !["temp_audio"] = TempAudio]
    /\ calls' = Append(calls, Call("convert", "temp_audio"))
    /\ Raise("RuntimeError", "convert")
    /\ UNCHANGED <<store, store0, args, assets, gemini_key, news_items,
                   main_audio_for_mix, result, exitCode, script, audio_data>>

\* lines 146-158: converted; ffmpeg finds no stream in a file of no bytes
ConvertOk ==
    /\ pc = "a_ret"
    /\ audio_data # <<>>
    /\ SynthReturned
    /\ files' = [files EXCEPT !["temp_audio"] = TempAudio,
                              !["main_audio"] =
                                  [from |-> <<"synth", "convert">>, empty |-> FALSE]]
    /\ calls' = Append(calls, Call("convert", "temp_audio"))
    /\ pc' = "bgm"
    /\ UNCHANGED <<store, store0, args, assets, gemini_key, news_items,
                   main_audio_for_mix, result, exitCode, script, audio_data, raised>>

\* lines 160-171: the background music is there and is mixed in
BgmOk ==
    /\ pc = "bgm"
    /\ assets.bgm
    /\ files' = [files EXCEPT !["main_with_bgm"] = Derived("main_audio", "bgm")]
    /\ calls' = Append(calls, Call("bgm", "main_audio"))
    /\ main_audio_for_mix' = "main_with_bgm"
    /\ pc' = "mix"
    /\ UNCHANGED <<store, store0, args, assets, gemini_key, news_items, result, exitCode,
                   script, synthVars, audio_data, raised>>

\* lines 162-169, audio_mixer.py 184-207: ffmpeg exits non-zero
BgmFail ==
    /\ pc = "bgm"
    /\ assets.bgm
    /\ calls' = Append(calls, Call("bgm", "main_audio"))
    /\ Raise("RuntimeError", "bgm")
    /\ UNCHANGED <<store, store0, args, assets, gemini_key, news_items, files,
                   main_audio_for_mix, result, exitCode, script, synthVars,
                   audio_data>>

\* a variant that takes the mixed file for the splice although none was made
BgmSkipKeepsMixed ==
    /\ pc = "bgm"
    /\ ~assets.bgm
    /\ main_audio_for_mix' = "main_with_bgm"
    /\ pc' = "mix"
    /\ UNCHANGED <<store, store0, args, assets, gemini_key, news_items, files, result,
                   calls, exitCode, script, synthVars, audio_data, raised>>

\* lines 172-174: no background music
BgmSkip ==
    /\ pc = "bgm"
    /\ ~assets.bgm
    /\ main_audio_for_mix' = "main_audio"
    /\ pc' = "mix"
    /\ UNCHANGED <<store, store0, args, assets, gemini_key, news_items, files, result,
                   calls, exitCode, script, synthVars, audio_data, raised>>

\* audio_mixer.py 71-74, 95-100: the files of the concat list, in order
ConcatCall(main_audio_path) ==
    [stage |-> "concat", input |-> main_audio_path,
     audio_files |-> <<"intro_fixed", main_audio_path>>]

\* lines 176-178, audio_mixer.py 69-74, 83-130: the intro is prepended
MixConcatOk ==
    /\ pc = "mix"
    /\ assets.intro
    /\ files' = [files EXCEPT !["final_audio"] = Derived(main_audio_for_mix, "concat")]
    /\ calls' = Append(calls, ConcatCall(main_audio_for_mix))
    /\ pc' = "normalize"
    /\ UNCHANGED <<store, store0, args, assets, gemini_key, news_items,
                   main_audio_for_mix, result, exitCode, script, synthVars,
                   audio_data, raised>>

\* audio_mixer.py 124-125: the concat exits non-zero
MixConcatFail ==
    /\ pc = "mix"
    /\ assets.intro
    /\ calls' = Append(calls, ConcatCall(main_audio_for_mix))
    /\ Raise("RuntimeError", "mix")
    /\ UNCHANGED <<store, store0, args, assets, gemini_key, news_items, files,
                   main_audio_for_mix, result, exitCode, script, synthVars,
                   audio_data>>

\* audio_mixer.py 75-81: no intro asset; the copy's exit code is not read
MixCopy ==
    /\ pc = "mix"
    /\ ~assets.intro
    /\ \E rc \in {0, 1} :
          files' = IF rc = 0
                   THEN [files EXCEPT !["final_audio"] =
                                          Derived(main_audio_for_mix, "copy")]
                   ELSE files
    /\ calls' = Append(calls, Call("copy", main_audio_for_mix))
    /\ pc' = "normalize"
    /\ UNCHANGED <<store, store0, args, assets, gemini_key, news_items,
                   main_audio_for_mix, result, exitCode, script, synthVars,
                   audio_data, raised>>

\* lines 180-183, audio_mixer.py 222-243; ffmpeg cannot read a missing input
NormalizeOk ==
    /\ pc = "normalize"
    /\ Exists("final_audio")
    /\ files' = [files EXCEPT !["normalized_audio"] = Derived("final_audio", "normalize")]
    /\ calls' = Append(calls, Call("normalize", "final_audio"))
    /\ pc' = "video"
    /\ UNCHANGED <<store, store0, args, assets, gemini_key, news_items,
                   main_audio_for_mix, result, exitCode, script, synthVars,
                   audio_data, raised>>

\* audio_mixer.py 240-241
NormalizeFail ==
    /\ pc = "normalize"
    /\ calls' = Append(calls, Call("normalize", "final_audio"))
    /\ Raise("RuntimeError", "normalize")
    /\ UNCHANGED <<store, store0, args, assets, gemini_key, news_items, files,
                   main_audio_for_mix, result, exitCode, script, synthVars,
                   audio_data>>

\* video_generator.py 33, in seconds
INTRO_DURATION == 35

\* the lengths in seconds the probe may report for the audio
Durations == {10, INTRO_DURATION, 60}

Min(a, b) == IF a <= b THEN a ELSE b

\* video_generator.py 97, 339-359: ffprobe reports the length of the audio
ProbeCall(duration) ==
    [stage |-> "probe", input |-> "normalized_audio", returned |-> duration]

\* video_generator.py 111-138: one looped image, -shortest, -t duration
MuxSingle(duration) ==
    [stage |-> "mux_single", input |-> "normalized_audio",
     shortest |-> TRUE, t |-> duration, enable_lt |-> 0]

\* a variant that shows the intro image for the configured time whatever the
\* length of the audio is
MuxSwitchNoMin(duration) ==
    [stage |-> "mux_switch", input |-> "normalized_audio",
     shortest |-> FALSE, t |-> duration, enable_lt |-> INTRO_DURATION]

\* video_generator.py 166-211: two looped images, the intro image laid over
\* the main one while lt(t, intro_duration), -t duration
MuxSwitch(duration) ==
    [stage |-> "mux_switch", input |-> "normalized_audio",
     shortest |-> FALSE, t |-> duration,
     enable_lt |-> Min(INTRO_DURATION, duration)]

\* the length of the video ffmpeg writes for a mux request and an audio of
\* `audio` seconds: the images loop without end, -t cuts the output, and
\* -shortest ends it with the audio
VideoLength(mux, audio) == IF mux.shortest THEN Min(audio, mux.t) ELSE mux.t

\* video_generator.py 177: the image on top at second t of the video; the
\* intro image lies over the main one while lt(t, intro_duration)
Shown(mux, t) ==
    IF mux.stage = "mux_single" THEN "background"
    ELSE IF t < mux.enable_lt THEN "intro" ELSE "main"

\* video_generator.py 100-108: both images are there, or not
MuxCall(duration) ==
    IF assets.images THEN MuxSwitch(duration) ELSE MuxSingle(duration)

\* lines 185-199, video_generator.py 96-147, 149-222: probe, then the mux
\* with one image or with two
VideoOk ==
    /\ pc = "video"
    /\ \E duration \in Durations :
          /\ files' = [files EXCEPT !["video"] =
                           Derived("normalized_audio", MuxCall(duration).stage)]
          /\ calls' = calls \o <<ProbeCall(duration), MuxCall(duration)>>
    /\ pc' = "thumbnail"
    /\ UNCHANGED <<store, store0, args, assets, gemini_key, news_items,
                   main_audio_for_mix, result, exitCode, script, synthVars,
                   audio_data, raised>>

\* video_generator.py 62-73, 356-357, 140-141, 218-219: ffmpeg is missing,
\* or the probe or the mux exits non-zero
VideoFail ==
    /\ pc = "video"
    /\ \E duration \in Durations :
          \E made \in {<<>>, <<[ProbeCall(duration) EXCEPT !.returned = 0]>>,
                       <<ProbeCall(duration), MuxCall(duration)>>} :
              calls' = calls \o made
    /\ Raise("RuntimeError", "video")
    /\ UNCHANGED <<store, store0, args, assets, gemini_key, news_items, files,
                   main_audio_for_mix, result, exitCode, script, synthVars,
                   audio_data>>

\* lines 201-208, video_generator.py 374-438
ThumbnailOk ==
    /\ pc = "thumbnail"
    /\ files' = [files EXCEPT !["thumbnail"] = [from |-> <<"thumbnail">>, empty |-> FALSE]]
    /\ calls' = Append(calls, Call("thumbnail", "none"))
    /\ pc' = "publish"
    /\ UNCHANGED <<store, store0, args, assets, gemini_key, news_items,
                   main_audio_for_mix, result, exitCode, script, synthVars,
                   audio_data, raised>>

\* video_generator.py 374-375: PIL is not installed
ThumbnailFail ==
    /\ pc = "thumbnail"
    /\ calls' = Append(calls, Call("thumbnail", "none"))
    /\ Raise("RuntimeError", "thumbnail")
    /\ UNCHANGED <<store, store0, args, assets, gemini_key, news_items, files,
                   main_audio_for_mix, result, exitCode, script, synthVars,
                   audio_data>>

\* a variant of the dry run that uploads all the same
PublishDryRunUploads ==
    /\ pc = "publish"
    /\ args.dry_run
    /\ calls' = Append(calls, Call("publish", "video"))
    /\ result' = [NoResult EXCEPT !.news_ids = news_items, !.dry_run = TRUE,
                                  !.video_id = "v1"]
    /\ pc' = "status"
    /\ UNCHANGED <<store, store0, args, assets, gemini_key, news_items, files,
                   main_audio_for_mix, exitCode, script, synthVars,
                   audio_data, raised>>

\* lines 211-221: the dry run publishes nothing
PublishDryRun ==
    /\ pc = "publish"
    /\ args.dry_run
    /\ result' = [NoResult EXCEPT !.news_ids = news_items, !.dry_run = TRUE]
    /\ pc' = "status"
    /\ UNCHANGED <<store, store0, args, assets, gemini_key, news_items, files,
                   main_audio_for_mix, calls, exitCode, script, synthVars,
                   audio_data, raised>>

\* lines 222-224, youtube_uploader.py 43-67: no credentials
PublishNoCredentials ==
    /\ pc = "publish"
    /\ ~args.dry_run
    /\ Raise("ValueError", "publish")
    /\ UNCHANGED <<mainVars, script, synthVars, audio_data>>

\* a variant that archives the items before it uploads
PublishRaiseArchivesFirst ==
    /\ pc = "publish"
    /\ ~args.dry_run
    /\ store' = update_news_status(store, news_items, "archived")
    /\ calls' = calls \o <<Call("update", "none"), Call("publish", "video")>>
    /\ Raise("HttpError", "publish")
    /\ UNCHANGED <<store0, args, assets, gemini_key, news_items, files,
                   main_audio_for_mix, result, exitCode, script, synthVars,
                   audio_data>>

\* lines 229-242, youtube_uploader.py 117-118, 141-173: the upload raises
PublishRaise ==
    /\ pc = "publish"
    /\ ~args.dry_run
    /\ calls' = Append(calls, Call("publish", "video"))
    /\ Raise("HttpError", "publish")
    /\ UNCHANGED <<store, store0, args, assets, gemini_key, news_items, files,
                   main_audio_for_mix, result, exitCode, script, synthVars,
                   audio_data>>

\* the ids the publish sink may give to the new video
VideoIds == {"v1", "v2"}

\* youtube_uploader.py 156
video_url(video_id) ==
    CASE video_id = "v1" -> "https://www.youtube.com/watch?v=v1"
      [] video_id = "v2" -> "https://www.youtube.com/watch?v=v2"

\* youtube_uploader.py 164-169: what upload_video returns
UploadResult(video_id) == [video_id |-> video_id, url |-> video_url(video_id)]

\* youtube_uploader.py 141-155: the insert request and the id of its response
InsertCall(video_id) == [stage |-> "publish", input |-> "video", id |-> video_id]

\* youtube_uploader.py 161-162, 175-197: the thumbnail request for the video
\* and how it ended
ThumbnailCall(video_id, outcome) ==
    [stage |-> "set_thumbnail", input |-> "thumbnail", video_id |-> video_id,
     outcome |-> outcome]

\* lines 222-245, youtube_uploader.py 141-169, 175-197: uploaded; the
\* thumbnail is set, or the HttpError of setting it is caught in
\* set_thumbnail
PublishOk ==
    /\ pc = "publish"
    /\ ~args.dry_run
    /\ \E v \in VideoIds, outcome \in {"ok", "HttpError"} :
          /\ calls' = calls
                 \o <<[stage |-> "publish", input |-> "video", id |-> v,
                       returned |-> UploadResult(v)]>>
                 \o (IF Exists("thumbnail")
                     THEN <<ThumbnailCall(v, outcome)>> ELSE <<>>)
          /\ result' = [NoResult EXCEPT !.news_ids = news_items,
                                        !.video_id = UploadResult(v).video_id,
                                        !.video_url = UploadResult(v).url]
    /\ pc' = "status"
    /\ UNCHANGED <<store, store0, args, assets, gemini_key, news_items, files,
                   main_audio_for_mix, exitCode, script, synthVars, audio_data,
                   raised>>

\* youtube_uploader.py 161-173, 189-197: the video is inserted and the
\* thumbnail request fails with an exception that is no HttpError (the
\* transport, the credentials); neither set_thumbnail nor upload_video
\* catches it
PublishThumbnailRaise ==
    /\ pc = "publish"
    /\ ~args.dry_run
    /\ Exists("thumbnail")
    /\ \E v \in VideoIds :
          calls' = calls \o <<InsertCall(v), ThumbnailCall(v, "TransportError")>>
    /\ Raise("TransportError", "publish")
    /\ UNCHANGED <<store, store0, args, assets, gemini_key, news_items, files,
                   main_audio_for_mix, result, exitCode, script, synthVars,
                   audio_data>>

\* lines 308-319: the items are archived and main returns 0
StatusUpdate ==
    /\ pc = "status"
    /\ ~args.skip_status_update /\ ~args.dry_run
    /\ store' = update_news_status(store, result.news_ids, "archived")
    /\ calls' = Append(calls, UpdateCall(result.news_ids, "archived"))
    /\ pc' = "exit"
    /\ exitCode' = 0
    /\ UNCHANGED <<store0, args, assets, gemini_key, news_items, files,
                   main_audio_for_mix, result, script, synthVars, audio_data,
                   raised>>

\* lines 308-310, 97: the commit raises; nothing is written
StatusUpdateRaise ==
    /\ pc = "status"
    /\ ~args.skip_status_update /\ ~args.dry_run
    /\ calls' = Append(calls, UpdateCall(result.news_ids, "archived"))
    /\ Raise("FirebaseError", "update")
    /\ UNCHANGED <<store, store0, args, assets, gemini_key, news_items, files,
                   main_audio_for_mix, result, exitCode, script, synthVars,
                   audio_data>>

\* lines 309, 312-319: no update asked for
StatusSkip ==
    /\ pc = "status"
    /\ args.skip_status_update \/ args.dry_run
    /\ pc' = "exit"
    /\ exitCode' = 0
    /\ UNCHANGED <<store, store0, args, assets, gemini_key, news_items, files,
                   main_audio_for_mix, result, calls, script, synthVars,
                   audio_data, raised>>

\* a variant that reports success after an exception
MainExceptSwallows ==
    /\ pc = "raised"
    /\ pc' = "exit"
    /\ exitCode' = 0
    /\ UNCHANGED <<store, store0, args, assets, gemini_key, news_items, files,
                   main_audio_for_mix, result, calls, script, synthVars,
                   audio_data, raised>>

\* lines 321-326
MainExcept ==
    /\ pc = "raised"
    /\ pc' = "exit"
    /\ exitCode' = 1
    /\ UNCHANGED <<store, store0, args, assets, gemini_key, news_items, files,
                   main_audio_for_mix, result, calls, script, synthVars,
                   audio_data, raised>>

\* the state main() starts in, but for pc, store and flags
IdleMain ==
    /\ news_items = <<>>
    /\ files = [f \in FileNames |-> Absent]
    /\ main_audio_for_mix = "none"
    /\ result = NoResult
    /\ calls = <<>>
    /\ exitCode = -1

IdleSynth ==
    /\ dialogues = <<>>
    /\ i = 0
    /\ retry = 0
    /\ audio_segments = <<>>
    /\ unit = NoUnit
    /\ lastReq = NoReq
    /\ requested = <<>>
    /\ audio_data = <<>>
    /\ raised = NoExc

\* documents in the collection
MaxItems == 4

Items == 1..MaxItems

\* the first k documents are selected, the others are all unread or all archived
InitStores ==
    {[d \in Items |-> IF d <= k THEN "selected" ELSE other] :
        <<k, other>> \in (0..MaxItems) \X {"unread", "archived"}}

Args == [dry_run : BOOLEAN, use_fallback_tts : BOOLEAN, skip_status_update : BOOLEAN]

\* assets/bgm/bgm_news.mp3 (main.py 161-162), assets/intro_fixed.mp3
\* (audio_mixer.py 32, 69), and both of assets/images/hook.jpg and
\* assets/images/news_major.png (video_generator.py 53-54, 100)
Assets == [bgm : BOOLEAN, intro : BOOLEAN, images : BOOLEAN]

AllAssets == [bgm |-> TRUE, intro |-> TRUE, images |-> TRUE]

Init ==
    /\ pc = "start"
    /\ store \in InitStores
    /\ store0 = store
    /\ args \in Args
    /\ assets \in Assets
    /\ gemini_key \in BOOLEAN
    /\ script = MkScript(0, 0, ZeroLens, 0, NoBlank)
    /\ IdleMain
    /\ IdleSynth

NextGemini ==
    \/ GeminiEnter
    \/ GeminiSkip
    \/ GeminiSend
    \/ GeminiAttemptOk
    \/ GeminiAttempt429
    \/ GeminiAttemptClientError
    \/ GeminiAttemptServerError
    \/ GeminiAssemble

NextEdge ==
    \/ EdgeEnter
    \/ EdgeSkip
    \/ EdgeUnitOk
    \/ EdgeUnitRaise
    \/ EdgeAssemble

Next ==
    \/ FetchRaise
    \/ FetchFew
    \/ FetchOk
    \/ ScriptGenNoKey
    \/ ScriptGenRaise
    \/ ScriptGenOk
    \/ TtsGemini
    \/ TtsEdge
    \/ TtsEdgeImportError
    \/ NextGemini
    \/ NextEdge
    \/ ConvertNoFfmpeg
    \/ ConvertFail
    \/ ConvertOk
    \/ BgmOk
    \/ BgmFail
    \/ BgmSkip
    \/ MixConcatOk
    \/ MixConcatFail
    \/ MixCopy
    \/ NormalizeOk
    \/ NormalizeFail
    \/ VideoOk
    \/ VideoFail
    \/ ThumbnailOk
    \/ ThumbnailFail
    \/ PublishDryRun
    \/ PublishNoCredentials
    \/ PublishRaise
    \/ PublishOk
    \/ PublishThumbnailRaise
    \/ StatusUpdate
    \/ StatusUpdateRaise
    \/ StatusSkip
    \/ MainExcept

Spec == Init /\ [][Next]_vars

-----------------------------------------------------------------------------
(* generate_audio on its own: every script of at most SynthMaxUnits units *)

SecLens == [SectionSet -> 0..1]

LensSum(lens) ==
    lens["introduction"] + lens["vocabulary_hook"] + lens["deep_dive"]
        + lens["discussion"]

SynthScripts ==
    UNION {{MkScript(1, nb, lens, no, blank) : blank \in Blanks(1, nb, lens, no)} :
           <<nb, lens, no>> \in
               {x \in (0..1) \X SecLens \X (0..SynthMaxUnits) :
                   x[1] * LensSum(x[2]) + x[3] <= SynthMaxUnits}}

\* main() has called generate_audio of the Gemini engine with the script
InitSynth ==
    /\ pc = "g_enter"
    /\ script \in SynthScripts
    /\ store = [d \in Items |-> IF d <= NeededItems THEN "selected" ELSE "unread"]
    /\ store0 = store
    /\ args = [dry_run |-> FALSE, use_fallback_tts |-> FALSE,
               skip_status_update |-> FALSE]
    /\ assets = AllAssets
    /\ gemini_key = TRUE
    /\ IdleMain
    /\ IdleSynth

NextSynth ==
    \/ GeminiEnter
    \/ GeminiSkip
    \/ GeminiSend
    \/ GeminiAttemptOk
    \/ GeminiAttempt429
    \/ GeminiAttemptClientError
    \/ GeminiAttemptServerError
    \/ GeminiAssemble

SpecSynth == InitSynth /\ [][NextSynth]_vars

\* units of the scripts on which the end of generate_audio is checked
RetryMaxUnits == 1

RetryScripts ==
    UNION {{MkScript(1, 0, ZeroLens, no, blank) : blank \in Blanks(0, 0, ZeroLens, no)} :
           no \in 0..RetryMaxUnits}

InitRetry ==
    /\ pc = "g_enter"
    /\ script \in RetryScripts
    /\ store = [d \in Items |-> IF d <= NeededItems THEN "selected" ELSE "unread"]
    /\ store0 = store
    /\ args = [dry_run |-> FALSE, use_fallback_tts |-> FALSE,
               skip_status_update |-> FALSE]
    /\ assets = AllAssets
    /\ gemini_key = TRUE
    /\ IdleMain
    /\ IdleSynth

\* generate_audio runs on: the interpreter takes the next step of the loop,
\* and every call of the backend returns or raises
SpecRetry == InitRetry /\ [][NextSynth]_vars /\ WF_vars(NextSynth)

-----------------------------------------------------------------------------
(* generate_audio of the three backends on scripts of several blocks,      *)
(* every request answered with one good payload                            *)

\* topic blocks of a script
MaxBlocks == 2

\* units of a section
MaxSecLen == 2

\* units of the outro
MaxOutro == 2

UniformLens(l) == [s \in SectionSet |-> l]

\* the turns the prompt asks for (script_generator.py 99-113, 137-170)
ScenarioLens == [introduction |-> 2, vocabulary_hook |-> 2, deep_dive |-> 3,
                 discussion |-> 2]

ScenarioScript == MkScript(2, 3, ScenarioLens, 2, NoBlank)

OrderScripts ==
    UNION {{MkScript(1, nb, UniformLens(l), no, blank) :
               blank \in Blanks(1, nb, UniformLens(l), no)} :
           <<nb, l, no>> \in (0..MaxBlocks) \X (0..MaxSecLen) \X (0..MaxOutro)}

InitScript ==
    /\ pc \in {"g_enter", "e_enter", "f_enter"}
    /\ script \in OrderScripts \cup {ScenarioScript}
    /\ store = [d \in Items |-> IF d <= NeededItems THEN "selected" ELSE "unread"]
    /\ store0 = store
    /\ args = [dry_run |-> FALSE, use_fallback_tts |-> (pc # "g_enter"),
               skip_status_update |-> FALSE]
    /\ assets = AllAssets
    /\ gemini_key = TRUE
    /\ IdleMain
    /\ IdleSynth

NextScript ==
    \/ GeminiEnter
    \/ GeminiSkip
    \/ GeminiSend
    \/ GeminiAttemptGood
    \/ GeminiAssemble
    \/ EdgeEnter
    \/ EdgeSkip
    \/ EdgeUnitGood
    \/ EdgeAssemble
    \/ FallbackEnter
    \/ FallbackSkip
    \/ FallbackUnitGood
    \/ FallbackAssemble

SpecScript == InitScript /\ [][NextScript]_vars

-----------------------------------------------------------------------------
(* Properties *)

StagesOf(log) == {log[k].stage : k \in 1..Len(log)}

\* C1: if the publish step raises, update_news_status is not called in the
\* run, no document changes its status and main returns 1.
C1_PublishRaiseNoUpdate ==
    raised.at = "publish" =>
        /\ pc \in {"raised", "exit"}
        /\ "update" \notin StagesOf(calls)
        /\ store = store0
        /\ (pc = "exit" => exitCode = 1)

C1_Witness ==
    /\ raised = [exc |-> "HttpError", at |-> "publish"]
    /\ pc = "exit"
    /\ exitCode = 1

PrePublishStages == {"script", "synth", "convert", "bgm", "mix", "normalize",
                     "video", "thumbnail"}

\* C2: if a stage before the publication raises, the run makes no publish
\* call and no status update, every fetched item is still `selected`, and
\* main returns a non-zero exit code.
C2_EarlyFailureNoPublish ==
    raised.at \in PrePublishStages =>
        /\ pc \in {"raised", "exit"}
        /\ StagesOf(calls) \cap {"publish", "set_thumbnail", "update"} = {}
        /\ Len(news_items) = NeededItems
        /\ \A k \in 1..Len(news_items) : store[news_items[k]] = "selected"
        /\ store = store0
        /\ (pc = "exit" => exitCode # 0)

C2_Witness ==
    /\ raised = [exc |-> "RuntimeError", at |-> "normalize"]
    /\ pc = "exit"
    /\ exitCode = 1

\* the sum for j = 0..K-1 of base_wait * 2^j
RECURSIVE SumBackoff(_)
SumBackoff(K) == IF K = 0 THEN 0 ELSE SumBackoff(K - 1) + base_wait * (2 ^ (K - 1))

\* C3: a unit whose request failed K < max_retries times, every time with a
\* rate-limit error, has not been given up, the backoff slept for it is the
\* sum of the first K backoff terms, and when the next attempt succeeds the
\* unit is done after K + 1 attempts.
C3_BackoffSum ==
    (unit.nSrv = 0 /\ unit.outcome \in {"pending", "ok"}) =>
        /\ unit.n429 < max_retries
        /\ unit.backoff = SumBackoff(unit.n429)
        /\ (unit.outcome = "ok" => unit.attempts = unit.n429 + 1)
        /\ (unit.outcome = "ok" => pc \notin {"raised", "exit"})

C3_Witness ==
    /\ unit.outcome = "ok"
    /\ unit.nSrv = 0
    /\ unit.n429 = max_retries - 1
    /\ unit.backoff = 45

NonBlankCount(d, n) == Cardinality({k \in 1..n : ~IsBlank(d[k].text)})

\* C4: a unit answered with a rate-limit error on every attempt makes
\* generate_audio raise that error after the 5th attempt, and no request is
\* issued for a later unit.
C4_ExhaustedRetriesRaise ==
    /\ (unit.n429 = max_retries) => raised.exc = "ClientError429"
    /\ (raised.exc = "ClientError429") =>
          /\ pc \in {"raised", "exit"}
          /\ unit.outcome = "raised"
          /\ unit.attempts = max_retries
          /\ lastReq.idx = i /\ lastReq.retry = max_retries - 1
          /\ Len(requested) = NonBlankCount(dialogues, i + 1)
          /\ requested[Len(requested)] = dialogues[i + 1].at

C4_Witness ==
    /\ raised.exc = "ClientError429"
    /\ unit.n429 = max_retries
    /\ i + 1 < Len(dialogues)
    /\ ~IsBlank(dialogues[i + 2].text)

\* C5: the inter-request delay is slept exactly once before the first
\* attempt of every request but the first request of the run, and never
\* before the first request of the run or before a retry.
C5_SpacingBetweenRequestsOnly ==
    lastReq.idx >= 0 =>
        lastReq.spaced = (IF lastReq.retry = 0 /\ ~lastReq.first
                          THEN request_interval ELSE 0)

\* C6: when generate_audio returns, every unit with a non-blank text has at
\* least one recorded payload.
C6_NoSilentDrop ==
    (pc = "a_ret" /\ dialogues # <<>>) =>
        \A k \in 1..Len(dialogues) :
            ~IsBlank(dialogues[k].text) =>
                \E j \in 1..Len(audio_segments) :
                    audio_segments[j].of = dialogues[k].at

\* the payloads were assembled with pydub (not handed back undecoded)
Assembled == \A k \in 1..Len(audio_data) : audio_data[k].kind # "undecoded"

DecodablePayload(p) == p.data.size >= MinPayloadBytes /\ Decode(p).ok

RECURSIVE TotalMs(_)
TotalMs(tl) == IF tl = <<>> THEN 0 ELSE Head(tl).ms + TotalMs(Tail(tl))

RECURSIVE DecodedMs(_)
DecodedMs(ps) == IF ps = <<>> THEN 0 ELSE Decode(Head(ps)).ms + DecodedMs(Tail(ps))

\* C7: the assembled audio is the N decodable payloads in input order with
\* a 400 ms silence between consecutive ones and none before the first or
\* after the last, so it lasts the sum of the segments plus (N-1) * 400 ms;
\* for N = 0 it is empty, and the assembly raises nothing.
C7_AssemblyLayout ==
    /\ pc = "raised" => i < Len(dialogues)
    /\ (pc = "a_ret" /\ Assembled) =>
          LET dec == SelectSeq(audio_segments, DecodablePayload)
              N == Len(dec)
          IN  /\ N = 0 => audio_data = <<>>
              /\ N >= 1 =>
                    /\ Len(audio_data) = 2 * N - 1
                    /\ \A k \in 1..N :
                          audio_data[2 * k - 1] =
                              [kind |-> "speech", of |-> dec[k].of,
                               ms |-> Decode(dec[k]).ms]
                    /\ \A k \in 1..(N - 1) :
                          audio_data[2 * k] = [Silence EXCEPT !.ms = 400]
                    /\ TotalMs(audio_data) = DecodedMs(dec) + (N - 1) * 400

C7_Witness ==
    /\ pc = "a_ret"
    /\ Assembled
    /\ Len(audio_segments) = 3
    /\ Len(SelectSeq(audio_segments, DecodablePayload)) = 2
    /\ Len(audio_data) = 3

LaterStages == {"convert", "bgm", "concat", "copy", "normalize", "probe",
                "mux_single", "mux_switch", "publish"}

\* C8: an empty result of generate_audio is not taken to any later stage.
C8_EmptyAudioGoesNoFurther ==
    (Exists("temp_audio") /\ files["temp_audio"].empty) =>
        StagesOf(calls) \cap LaterStages = {}

DocSecIdx(sec) ==
    CASE sec = "introduction"    -> 1
      [] sec = "vocabulary_hook" -> 2
      [] sec = "deep_dive"       -> 3
      [] sec = "discussion"      -> 4

\* place a comes before place b in the document, the outro last
DocBefore(a, b) ==
    IF a[1] = "outro" THEN b[1] = "outro" /\ a[3] < b[3]
    ELSE \/ b[1] = "outro"
         \/ a[2] < b[2]
         \/ /\ a[2] = b[2]
            /\ \/ DocSecIdx(a[1]) < DocSecIdx(b[1])
               \/ a[1] = b[1] /\ a[3] < b[3]

InDocOrder(places) ==
    /\ \A k \in 1..Len(places) : places[k][1] # "intro"
    /\ \A j, k \in 1..Len(places) : j < k => DocBefore(places[j], places[k])

\* the places of the script's units outside the intro that carry a text
SpokenPlaces(s) ==
    {s.outro[k].at : k \in {x \in 1..Len(s.outro) : ~IsBlank(s.outro[x].text)}}
    \cup UNION {UNION {{s.news[b].sections[sec][k].at :
                           k \in {x \in 1..Len(s.news[b].sections[sec]) :
                                    ~IsBlank(s.news[b].sections[sec][x].text)}} :
                       sec \in SectionSet} :
                b \in 1..Len(s.news)}

IsSpeech(piece) == piece.kind = "speech"

SpeechPlaces(tl) ==
    [k \in 1..Len(SelectSeq(tl, IsSpeech)) |-> SelectSeq(tl, IsSpeech)[k].of]

\* C9 (the three backends): no intro unit is sent to the backend; the requests are issued for the
\* units of the blocks in list order, inside a block in the order
\* introduction, vocabulary_hook, deep_dive, discussion, then for the outro;
\* the assembled audio keeps that order.
C9_DocumentOrder ==
    /\ InDocOrder(requested)
    /\ pc = "a_ret" =>
          /\ {requested[k] : k \in 1..Len(requested)} = SpokenPlaces(script)
          /\ Assembled => SpeechPlaces(audio_data) = requested

C9_Witness ==
    /\ pc = "a_ret"
    /\ ~args.use_fallback_tts
    /\ Assembled
    /\ Len(script.intro) = 1
    /\ Len(script.news) = 2
    /\ Len(requested) = 9
    /\ Len(dialogues) = 10

\* C10 as stated: 27 units synthesized, 26 gaps.
C10_Scenario27Units ==
    (script = ScenarioScript /\ ~args.use_fallback_tts /\ pc = "a_ret") =>
        /\ Len(requested) = 27
        /\ Assembled => Len(SelectSeq(audio_data, IsSpeech)) = 27
        /\ Assembled => Len(audio_data) - Len(SelectSeq(audio_data, IsSpeech)) = 26

\* C10, amended: for the script with an intro of 2 units, 3 blocks of
\* 2+2+3+2 units and an outro of 2 units, every request answered with one
\* decodable payload, 29 units are synthesized (the 27 of the blocks and the
\* 2 of the outro) and the assembled audio has 28 silence gaps of 0.4 s.
C10_Scenario29Units ==
    (script = ScenarioScript /\ ~args.use_fallback_tts /\ pc = "a_ret") =>
        /\ Len(requested) = 29
        /\ Len(audio_segments) = 29
        /\ Assembled =>
              /\ Len(SelectSeq(audio_data, IsSpeech)) = 29
              /\ Len(audio_data) - Len(SelectSeq(audio_data, IsSpeech)) = 28
              /\ \A k \in 1..Len(audio_data) :
                    ~IsSpeech(audio_data[k]) => audio_data[k] = [Silence EXCEPT !.ms = 400]

C10_Witness ==
    /\ script = ScenarioScript
    /\ ~args.use_fallback_tts
    /\ Len(script.intro) = 2 /\ Len(script.news) = 3 /\ Len(script.outro) = 2
    /\ pc = "a_ret"
    /\ Assembled
    /\ audio_data # <<>>

\* the run was aborted for a missing credential or a missing ffmpeg binary
ConfigAbort ==
    \/ raised.at = "script" /\ ~gemini_key
    \/ raised.at = "convert" /\ "convert" \notin StagesOf(calls)
    \/ raised.at = "video" /\ "probe" \notin StagesOf(calls)
    \/ raised = [exc |-> "ValueError", at |-> "publish"]

\* C11: a run that aborts for a missing credential or a missing required
\* asset has made no store query, no script-generation call and no
\* speech-backend request; a missing intro asset aborts the run too, so the
\* run never gets to the pass-through copy that replaces the splice.
C11_ConfigAbortsBeforeAnyCall ==
    /\ ConfigAbort => StagesOf(calls) \cap {"query", "script", "synth"} = {}
    /\ "copy" \notin StagesOf(calls)

ToolStages == {"convert", "bgm", "concat", "copy", "normalize", "probe",
               "mux_single", "mux_switch"}

\* the tool call k of the log has left its output
ToolSucceeded(k) ==
    CASE calls[k].stage = "convert"   -> Exists("main_audio")
      [] calls[k].stage = "bgm"       -> Exists("main_with_bgm")
      [] calls[k].stage \in {"concat", "copy"} -> Exists("final_audio")
      [] calls[k].stage = "normalize" -> Exists("normalized_audio")
      [] calls[k].stage = "probe"     ->
            k < Len(calls) /\ calls[k + 1].stage \in {"mux_single", "mux_switch"}
      [] OTHER                        -> Exists("video")

\* C12: a media-tool call that exits non-zero is the last call of the run,
\* and the run has raised.
C12_ToolFailureAborts ==
    \A k \in 1..Len(calls) :
        (calls[k].stage \in ToolStages /\ ~ToolSucceeded(k)) =>
            /\ k = Len(calls)
            /\ pc \in {"raised", "exit"}
            /\ raised.exc # "none"

\* generate_and_upload_video has returned its result
Returned == result.news_ids # <<>>

PublishCalls == {k \in 1..Len(calls) : calls[k].stage = "publish"}

\* C13: in a dry run the publish sink is never called, no status update is
\* requested, and the result is marked dry_run and has no video id and no
\* url; in any other run the result holds the id and the url the one call
\* of the publish sink returned.
C13_DryRunPublishesNothing ==
    /\ args.dry_run =>
          /\ StagesOf(calls) \cap {"publish", "set_thumbnail", "update"} = {}
          /\ store = store0
          /\ Returned =>
                /\ result.dry_run
                /\ result.video_id = "none"
                /\ result.video_url = "none"
    /\ (~args.dry_run /\ Returned) =>
          /\ ~result.dry_run
          /\ Cardinality(PublishCalls) = 1
          /\ \A k \in PublishCalls :
                /\ result.video_id = calls[k].returned.video_id
                /\ result.video_url = calls[k].returned.url

C13_Witness ==
    /\ args.dry_run
    /\ ~args.skip_status_update
    /\ Returned
    /\ result.dry_run
    /\ pc = "exit"
    /\ exitCode = 0

\* C14: when the query for selected items gives 0, 1 or 2 items, main
\* returns 0 having made no call but the query, and no status has changed.
C14_TooFewItemsExitCleanly ==
    (pc # "start" /\ raised.at # "fetch" /\ Len(news_items) < NeededItems) =>
        /\ pc = "exit"
        /\ exitCode = 0
        /\ calls = <<Call("query", "none")>>
        /\ result = NoResult
        /\ store = store0
        /\ \A f \in FileNames : ~Exists(f)

C14_Witness ==
    /\ Len(news_items) = 2
    /\ Cardinality({d \in Items : store0[d] = "selected"}) = 2
    /\ pc = "exit"
    /\ exitCode = 0

-----------------------------------------------------------------------------
(* the news collection under runs of the collector and of the generator    *)

\* documents the feeds and the collection can hold
StoreMaxItems == 3

\* the status field of a document that is not in the collection
NoDoc == "missing"

\* collector.py 66-83: every entry of the feeds is written with
\* set(news_data, merge=True), news_data holding "status": "unread"
fetch_and_save_news(db, entries) ==
    [d \in DOMAIN db |-> IF d \in entries THEN "unread" ELSE db[d]]

\* one run of the collector; the feeds hold the entries E
CollectorRun ==
    /\ \E E \in (SUBSET DOMAIN store) \ {{}} :
          store' = fetch_and_save_news(store, E)
    /\ UNCHANGED <<store0, args, assets, gemini_key, news_items, files,
                   main_audio_for_mix, result, calls, exitCode, pc, script,
                   synthVars, audio_data, raised>>

\* main() is started again after it has returned
RunAgain ==
    /\ pc = "exit"
    /\ pc' = "start"
    /\ news_items' = <<>>
    /\ files' = [f \in FileNames |-> Absent]
    /\ main_audio_for_mix' = "none"
    /\ result' = NoResult
    /\ calls' = <<>>
    /\ exitCode' = -1
    /\ script' = MkScript(0, 0, ZeroLens, 0, NoBlank)
    /\ audio_data' = <<>>
    /\ raised' = NoExc
    /\ UNCHANGED <<store, store0, args, assets, gemini_key, synthVars>>

StoreStores ==
    {[d \in 1..StoreMaxItems |-> IF d <= k THEN "selected" ELSE other] :
        <<k, other>> \in (0..StoreMaxItems) \X {NoDoc, "unread"}}

InitStore ==
    /\ pc = "start"
    /\ store \in StoreStores
    /\ store0 = store
    /\ args = [dry_run |-> FALSE, use_fallback_tts |-> FALSE,
               skip_status_update |-> FALSE]
    /\ assets = [AllAssets EXCEPT !.bgm = FALSE]
    /\ gemini_key = TRUE
    /\ script = MkScript(0, 0, ZeroLens, 0, NoBlank)
    /\ IdleMain
    /\ IdleSynth

NextStore ==
    \/ CollectorRun
    \/ RunAgain
    \/ FetchFew
    \/ FetchOk
    \/ ScriptGenOk
    \/ TtsGemini
    \/ GeminiEnter
    \/ GeminiSkip
    \/ GeminiSend
    \/ GeminiAttemptGood
    \/ GeminiAssemble
    \/ ConvertFail
    \/ ConvertOk
    \/ BgmSkip
    \/ MixConcatOk
    \/ NormalizeOk
    \/ VideoOk
    \/ ThumbnailOk
    \/ PublishRaise
    \/ PublishOk
    \/ StatusUpdate
    \/ MainExcept

SpecStore == InitStore /\ [][NextStore]_vars

UpdateCalls == {k \in 1..Len(calls) : calls[k].stage = "update"}

\* the documents whose status is not the one the run started with
Changed == {d \in DOMAIN store : store[d] # store0[d]}

\* C16: the status update is requested once, after the publish call, for
\* the ids of the items fetched at the start of the run, in their order, with
\* the status archived; the result holds the same ids; and the statuses
\* change for all of these items at once or for none of them.
C16_BatchUpdateOfFetchedItems ==
    /\ Returned => result.news_ids = news_items
    /\ \A k \in UpdateCalls :
          /\ calls[k].ids = get_selected_news(store0, QueryLimit)
          /\ calls[k].ids = news_items
          /\ Len(calls[k].ids) = NeededItems
          /\ calls[k].status = "archived"
          /\ \E j \in 1..(k - 1) : calls[j].stage = "publish"
    /\ Cardinality(UpdateCalls) <= 1
    /\ \/ Changed = {}
       \/ /\ Changed = {news_items[k] : k \in 1..Len(news_items)}
          /\ UpdateCalls # {}
          /\ raised.exc = "none"
          /\ \A d \in Changed : store0[d] = "selected" /\ store[d] = "archived"
    /\ (pc = "exit" /\ UpdateCalls # {} /\ raised.exc = "none") => Changed # {}
    /\ raised.at = "update" => Changed = {}

C16_Witness ==
    /\ pc = "exit"
    /\ exitCode = 0
    /\ UpdateCalls # {}
    /\ Cardinality(Changed) = NeededItems
    /\ \E d \in DOMAIN store : store0[d] = "selected" /\ store[d] = "selected"

\* the place of a call in the order of the stages
StageRank(stage) ==
    CASE stage = "query"      -> 0
      [] stage = "script"     -> 1
      [] stage = "synth"      -> 2
      [] stage = "convert"    -> 3
      [] stage = "bgm"        -> 4
      [] stage \in {"concat", "copy"} -> 5
      [] stage = "normalize"  -> 6
      [] stage = "probe"      -> 7
      [] stage \in {"mux_single", "mux_switch"} -> 8
      [] stage = "thumbnail"  -> 9
      [] stage = "publish"    -> 10
      [] stage = "set_thumbnail" -> 11
      [] stage = "update"     -> 12

\* the artifact the stage of call k has to read
StageInput(k) ==
    CASE calls[k].stage = "convert"   -> "temp_audio"
      [] calls[k].stage = "bgm"       -> "main_audio"
      [] calls[k].stage \in {"concat", "copy"} ->
            IF \E j \in 1..(k - 1) : calls[j].stage = "bgm"
            THEN "main_with_bgm" ELSE "main_audio"
      [] calls[k].stage = "normalize" -> "final_audio"
      [] calls[k].stage \in {"probe", "mux_single", "mux_switch"} ->
            "normalized_audio"
      [] calls[k].stage \in {"publish"} -> "video"
      [] calls[k].stage = "set_thumbnail" -> "thumbnail"
      [] OTHER -> calls[k].input

\* C17: the stages of a run start in the order script generation, synthesis,
\* convert, background mix, intro splice, normalize, video mux, thumbnail
\* render, publish, status update; a stage starts only when the stage before
\* it has left its output, and it reads that output; the video is made from
\* the normalized audio.
C17_StagesInOrder ==
    /\ \A j, k \in 1..Len(calls) :
          j < k => StageRank(calls[j].stage) < StageRank(calls[k].stage)
    /\ \A k \in 1..Len(calls) :
          /\ calls[k].input = StageInput(k)
          /\ calls[k].input \in FileNames => Exists(calls[k].input)
    /\ Exists("video") =>
          /\ Exists("normalized_audio")
          /\ SubSeq(files["video"].from, 1, Len(files["video"].from) - 1)
                = files["normalized_audio"].from
          /\ files["normalized_audio"].from[Len(files["normalized_audio"].from)]
                = "normalize"

NonBlankUnit(u) == ~IsBlank(u.text)

\* C18: at most one backend request is unanswered at any time; while it is,
\* generate_audio stays at the unit and attempt of that request; the first
\* request of a unit is issued only when the unit before it has ended with a
\* successful request; and the requests go out in the order of the units.
C18_OneRequestAtATime ==
    /\ lastReq.open \in {0, 1}
    /\ lastReq.open = 1 =>
          /\ pc = "g_loop"
          /\ lastReq.idx = i
          /\ lastReq.retry = retry
    /\ (lastReq.idx >= 0 /\ lastReq.retry = 0) => lastReq.prev \in {"none", "ok"}
    /\ lastReq.prev = "none" => lastReq.first \/ lastReq.idx = -1
    /\ LET sent == SelectSeq(SubSeq(dialogues, 1, lastReq.idx + 1), NonBlankUnit)
       IN  requested = [k \in 1..Len(sent) |-> sent[k].at]

C18_Witness ==
    /\ lastReq.open = 1
    /\ lastReq.idx = 1
    /\ lastReq.retry = 2
    /\ lastReq.prev = "retry"
    /\ Len(requested) = 2

\* C19: whatever the backend answers, a unit gets at most max_retries
\* requests; rate-limit and server errors advance the same attempt counter
\* and are followed by the same backoff base_wait * 2^attempt; and
\* generate_audio ends by returning or by raising.
C19_BoundedRetries ==
    /\ [](/\ lastReq.retry < max_retries
          /\ retry < max_retries
          /\ unit.attempts <= max_retries
          /\ unit.n429 + unit.nSrv <= unit.attempts
          /\ unit.attempts <= unit.n429 + unit.nSrv + 1
          /\ unit.backoff = SumBackoff(unit.n429 + unit.nSrv)
          /\ unit.outcome = "pending" =>
                /\ unit.idx = i
                /\ retry = unit.n429 + unit.nSrv
                /\ unit.attempts = retry
          /\ (unit.n429 + unit.nSrv = max_retries) => pc = "raised")
    /\ <>(pc \in {"a_ret", "raised"})

C19_Witness ==
    /\ unit.outcome = "ok"
    /\ unit.n429 = 2
    /\ unit.nSrv = 2
    /\ unit.attempts = max_retries
    /\ unit.backoff = 45

WhitespaceOnly(t) == \A k \in 1..Len(t) : t[k] = " "

\* the places of the script's units whose text is empty or whitespace
BlankPlaces(s) ==
    {s.outro[k].at : k \in {x \in 1..Len(s.outro) : WhitespaceOnly(s.outro[x].text)}}
    \cup UNION {UNION {{s.news[b].sections[sec][k].at :
                           k \in {x \in 1..Len(s.news[b].sections[sec]) :
                                    WhitespaceOnly(s.news[b].sections[sec][x].text)}} :
                       sec \in SectionSet} :
                b \in 1..Len(s.news)}

SilenceCount(tl) == Len(tl) - Len(SelectSeq(tl, IsSpeech))

\* C20 (the three backends): a unit whose text is empty or whitespace-only
\* gets no request, and neither a payload nor a piece of the returned audio
\* belongs to it; the number of silences of the returned audio is the one of
\* the script without its blank units.
C20_BlankUnitsSkipped ==
    /\ \A k \in 1..Len(requested) : requested[k] \notin BlankPlaces(script)
    /\ lastReq.idx >= 0 => dialogues[lastReq.idx + 1].at \notin BlankPlaces(script)
    /\ \A k \in 1..Len(audio_segments) :
          audio_segments[k].of \notin BlankPlaces(script)
    /\ (pc = "a_ret" /\ Assembled) =>
          /\ \A k \in 1..Len(audio_data) : audio_data[k].of \notin BlankPlaces(script)
          /\ Len(SelectSeq(audio_data, IsSpeech)) = Cardinality(SpokenPlaces(script))
          /\ SilenceCount(audio_data) =
                IF args.use_fallback_tts
                THEN Cardinality(SpokenPlaces(script))
                ELSE IF SpokenPlaces(script) = {} THEN 0
                     ELSE Cardinality(SpokenPlaces(script)) - 1

C20_Witness ==
    /\ pc = "a_ret"
    /\ args.use_fallback_tts
    /\ \E k \in 2..(Len(dialogues) - 1) : dialogues[k].text = <<" ">>
    /\ Len(requested) = Len(dialogues) - 1
    /\ Len(requested) = 9
    /\ SilenceCount(audio_data) = 9

\* a payload the assembly cannot use: empty, below the byte threshold, or
\* refused by the decoder
BadPayload(p) ==
    \/ p.data.size = 0
    \/ p.data.size < MinPayloadBytes
    \/ ~Decode(p).ok

UsablePayload(p) == ~BadPayload(p)

RequestExceptions == {"ClientError429", "ClientError", "ServerError"}

\* C21: in the assembly a payload that is empty, shorter than 10 bytes or
\* refused by the decoder is skipped: it gives no piece of the returned audio,
\* and every other payload gives its piece, in the order of recording,
\* whether it lies before or after a bad one. The only exceptions that leave
\* generate_audio are those of a request; the assembly raises none.
C21_BadPayloadsSkipped ==
    /\ pc = "raised" =>
          /\ raised.exc \in RequestExceptions
          /\ unit.outcome = "raised"
          /\ lastReq.idx = i
    /\ (pc = "a_ret" /\ Assembled) =>
          LET usable == SelectSeq(audio_segments, UsablePayload)
              spoken == SelectSeq(audio_data, IsSpeech)
          IN  /\ Len(spoken) = Len(usable)
              /\ \A k \in 1..Len(usable) :
                    /\ spoken[k].of = usable[k].of
                    /\ spoken[k].ms = Decode(usable[k]).ms
              /\ \A k \in 1..Len(audio_segments) :
                    (BadPayload(audio_segments[k]) /\
                     \A j \in 1..Len(audio_segments) :
                         j # k => audio_segments[j].of # audio_segments[k].of)
                    => \A j \in 1..Len(audio_data) :
                           audio_data[j].of # audio_segments[k].of

\* a bad payload was recorded before two usable ones, and both are in the
\* returned audio
C21_Witness ==
    /\ pc = "a_ret"
    /\ Assembled
    /\ Len(audio_segments) = 3
    /\ BadPayload(audio_segments[1])
    /\ UsablePayload(audio_segments[2])
    /\ UsablePayload(audio_segments[3])
    /\ Len(SelectSeq(audio_data, IsSpeech)) = 2

\* the mime types that name a container format
ContainerMimes == {"audio/wav", "audio/x-wav", "audio/mpeg", "audio/mp3",
                   "audio/ogg", "audio/flac"}

NoContainerDeclared(p) == p.mime_type \notin ContainerMimes

\* the mime types the backend's answers declare
DeclaredMimes == {r[k].mime_type : k \in 1..2, r \in {x \in Responses : Len(x) = 2}}
                 \cup {r[1].mime_type : r \in {x \in Responses : Len(x) >= 1}}

\* C22: every recorded payload carries the mime type its part declared, and
\* a payload of whole 16-bit samples for which no container is declared is
\* decoded as raw PCM (2 bytes per sample, 1 channel, 24000 Hz): it is in the
\* returned audio with the length of size / 48 ms.
C22_UndeclaredDecodedAsPcm ==
    /\ \A k \in 1..Len(audio_segments) : audio_segments[k].mime_type \in DeclaredMimes
    /\ (pc = "a_ret" /\ Assembled) =>
          \A k \in 1..Len(audio_segments) :
              LET p == audio_segments[k]
              IN  (/\ NoContainerDeclared(p)
                   /\ p.data.size >= MinPayloadBytes
                   /\ p.data.size % 2 = 0)
                  => \E j \in 1..Len(audio_data) :
                         audio_data[j] = Speech(p, p.data.size \div PcmBytesPerMs)

\* one intro, three topic blocks of the four named sections, one outro
HasStructure(s) ==
    /\ {"intro", "news", "outro"} \subseteq DOMAIN s
    /\ Len(s.news) = 3
    /\ \A b \in 1..Len(s.news) :
          /\ "sections" \in DOMAIN s.news[b]
          /\ DOMAIN s.news[b].sections = SectionSet

\* C23: whenever generate_script has returned for three items the script
\* has one intro, three topic blocks each with the sections introduction,
\* vocabulary_hook, deep_dive and discussion, and one outro; no script of
\* another structure is given to the synthesis.
C23_ScriptStructure ==
    /\ pc = "tts" => HasStructure(script)
    /\ \A k \in 1..Len(calls) : calls[k].stage = "synth" => HasStructure(script)


MixCalls == {k \in 1..Len(calls) : calls[k].stage \in {"concat", "copy"}}

\* C24: a missing background-music asset skips the background mix: no mix
\* is requested, nothing is raised in that stage, and the input of the intro
\* splice is the converted speech. Unless both images are there the video is
\* muxed with a single image, and with both it is muxed with the switch. In
\* either case the run goes on: a run that returns its result has spliced,
\* normalized, probed, muxed and drawn the thumbnail.
C24_OptionalAssetsSkipped ==
    /\ ~assets.bgm =>
          /\ "bgm" \notin StagesOf(calls)
          /\ raised.at # "bgm"
          /\ ~Exists("main_with_bgm")
          /\ main_audio_for_mix \in {"none", "main_audio"}
          /\ \A k \in MixCalls : calls[k].input = "main_audio"
    /\ pc \in {"mix", "normalize", "video", "thumbnail", "publish", "status"} =>
          main_audio_for_mix = IF assets.bgm THEN "main_with_bgm" ELSE "main_audio"
    /\ ~assets.images => "mux_switch" \notin StagesOf(calls)
    /\ assets.images => "mux_single" \notin StagesOf(calls)
    /\ Returned =>
          /\ MixCalls # {}
          /\ {"normalize", "probe", "thumbnail"} \subseteq StagesOf(calls)
          /\ (IF assets.images THEN "mux_switch" ELSE "mux_single") \in StagesOf(calls)

\* a run without background music and without the two images has published
C24_Witness ==
    /\ ~assets.bgm
    /\ ~assets.images
    /\ pc = "exit"
    /\ exitCode = 0
    /\ result.video_id # "none"
    /\ "mux_single" \in StagesOf(calls)
    /\ "bgm" \notin StagesOf(calls)


\* the splice is over and has raised nothing
Spliced == pc \in {"normalize", "video", "thumbnail", "publish", "status"}

\* C25: with the intro asset the splice is one concat of the intro and then
\* the body, in that order, and its output is that concatenation; without
\* the asset the splice raises nothing and its output is the body with
\* nothing added to it.
C25_IntroSplice ==
    /\ Cardinality(MixCalls) <= 1
    /\ \A k \in MixCalls :
          /\ calls[k].input = main_audio_for_mix
          /\ IF assets.intro
             THEN /\ calls[k].stage = "concat"
                  /\ calls[k].audio_files = <<"intro_fixed", main_audio_for_mix>>
             ELSE calls[k].stage = "copy"
    /\ ~assets.intro => raised.at # "mix"
    /\ Spliced =>
          /\ MixCalls # {}
          /\ Exists("final_audio")
          /\ files["final_audio"].from =
                Append(files[main_audio_for_mix].from,
                       IF assets.intro THEN "concat" ELSE "copy")
          /\ files["final_audio"].empty = files[main_audio_for_mix].empty

MuxCalls == {k \in 1..Len(calls) : calls[k].stage \in {"mux_single", "mux_switch"}}

\* C26: the mux asks for a video as long as the length D the probe reported
\* for the audio, with one image and with two, and the video written is D
\* long, not longer than the audio; with two images the intro image is on
\* top at every second t < min(35, D) and the main image at every later one,
\* and min(35, D) is the switch time the request names.
C26_VideoDuration ==
    \A k \in MuxCalls :
        /\ k > 1
        /\ calls[k - 1].stage = "probe"
        /\ calls[k - 1].input = calls[k].input
        /\ LET D == calls[k - 1].returned
           IN  /\ calls[k].t = D
               /\ VideoLength(calls[k], D) = D
               /\ calls[k].stage = "mux_switch" =>
                     /\ calls[k].enable_lt = Min(INTRO_DURATION, D)
                     /\ \A t \in 0..(D - 1) :
                           Shown(calls[k], t) =
                               IF t < INTRO_DURATION /\ t < D THEN "intro" ELSE "main"

\* a video with two images for an audio shorter than the intro time
C26_Witness ==
    /\ pc = "exit"
    /\ exitCode = 0
    /\ \E k \in MuxCalls :
          /\ calls[k].stage = "mux_switch"
          /\ calls[k].t < INTRO_DURATION
          /\ Shown(calls[k], calls[k].t - 1) = "intro"

\* C27: a ClientError whose code is not 429 leaves generate_audio at its
\* first occurrence: the unit has had one attempt more than its retryable
\* failures, no backoff was slept for the error and no retry counted, the
\* request of the failed attempt is the last one issued, no payload of the
\* unit is recorded and no later unit has been requested.
C27_ClientErrorFatal ==
    (pc = "raised" /\ raised.exc = "ClientError") =>
        /\ raised.at = "synth"
        /\ unit.idx = i
        /\ unit.outcome = "raised"
        /\ unit.attempts = unit.n429 + unit.nSrv + 1
        /\ retry = unit.n429 + unit.nSrv
        /\ unit.backoff = SumBackoff(unit.n429 + unit.nSrv)
        /\ lastReq.idx = i
        /\ lastReq.retry = retry
        /\ lastReq.open = 0
        /\ requested # <<>>
        /\ requested[Len(requested)] = dialogues[i + 1].at
        /\ Len(requested) = NonBlankCount(dialogues, i + 1)
        /\ \A k \in 1..Len(audio_segments) : audio_segments[k].of # dialogues[i + 1].at
        /\ audio_data = <<>>

\* the first unit of two fails with a fatal client error after one rate limit
C27_Witness ==
    /\ pc = "raised"
    /\ raised.exc = "ClientError"
    /\ i = 0
    /\ Len(dialogues) = 2
    /\ ~IsBlank(dialogues[2].text)
    /\ unit.n429 = 1
    /\ unit.backoff = base_wait
    /\ Len(requested) = 1

\* C28: whichever of the three backends has synthesized every unit of the
\* script, the returned audio has the units in the order of the requests
\* and the same layout: N spoken units, a 400 ms silence between any two
\* consecutive ones, N - 1 in all, and a spoken unit at the end.
C28_UniformLayout ==
    (pc = "a_ret" /\ Assembled /\ audio_data # <<>>) =>
        LET N == Cardinality(SpokenPlaces(script))
        IN  /\ SpeechPlaces(audio_data) = requested
            /\ Len(requested) = N
            /\ SilenceCount(audio_data) = N - 1
            /\ Len(audio_data) = 2 * N - 1
            /\ \A k \in 1..N : IsSpeech(audio_data[2 * k - 1])
            /\ \A k \in 1..(N - 1) : audio_data[2 * k] = Silence
            /\ IsSpeech(audio_data[Len(audio_data)])

ThumbnailCalls == {k \in 1..Len(calls) : calls[k].stage = "set_thumbnail"}

\* C29: the thumbnail is requested only after the insert has given the id of
\* the video, and for that video; when the thumbnail request fails the
\* publish does not: nothing is raised in the publish stage, the result
\* holds the id and the url of the video, and a run that may archive goes on
\* to request the status update.
C29_ThumbnailFailureTolerated ==
    \A k \in ThumbnailCalls :
        /\ k > 1
        /\ calls[k - 1].stage = "publish"
        /\ "id" \in DOMAIN calls[k - 1]
        /\ calls[k].video_id = calls[k - 1].id
        /\ calls[k].outcome # "ok" =>
              /\ raised.at # "publish"
              /\ result.video_id = calls[k].video_id
              /\ result.video_url = video_url(calls[k].video_id)
              /\ (pc = "exit" /\ ~args.skip_status_update) => UpdateCalls # {}

\* the publish calls whose insert has given the id of a video: the video is
\* public
Inserted == {k \in PublishCalls : "id" \in DOMAIN calls[k]}

StillSelected == \E k \in 1..Len(news_items) : store[news_items[k]] = "selected"

\* C30: when upload_video has returned in a run that is neither a dry run
\* nor started with --skip-status-update and the run is over, the status
\* update was requested exactly once, after the publish, for the items
\* fetched; and a run that has made a video public leaves items selected
\* only if that request raised or the flag skipped it.
C30_PublishThenArchive ==
    /\ (pc = "exit" /\ result.video_id # "none" /\ ~args.skip_status_update) =>
          /\ Cardinality(UpdateCalls) = 1
          /\ \A u \in UpdateCalls :
                /\ \A k \in Inserted : k < u
                /\ calls[u].ids = news_items
                /\ calls[u].status = "archived"
    /\ (pc = "exit" /\ Inserted # {} /\ StillSelected) =>
          \/ args.skip_status_update
          \/ raised = [exc |-> "FirebaseError", at |-> "update"]
=============================================================================
